---- MODULE Spec2Model ----
(***************************************************************************)
(* ByteReader (src/src/lib.rs): a cursor over a borrowed byte buffer.      *)
(*                                                                         *)
(* The program state is the pair (buffer, cursor).  The buffer is fixed at *)
(* construction and never written.  `overflow_checks` is the build         *)
(* profile: usize arithmetic that overflows panics when it is TRUE (debug  *)
(* builds) and wraps modulo 2^WordBits when it is FALSE (release builds).  *)
(* `last` records the most recent call: its name and arguments, the        *)
(* cursor it started from, its outcome, the value it returned and every    *)
(* index/slice expression it evaluated on the buffer.  `twin` is a second  *)
(* reader over the same buffer, used to compare a reader that was reset    *)
(* with a freshly constructed one.                                         *)
(*                                                                         *)
(* A panic aborts the program: no call follows it.                         *)
(***************************************************************************)
EXTENDS Integers, Sequences, FiniteSets

VARIABLES buffer, cursor, overflow_checks, last, twin

vars == <<buffer, cursor, overflow_checks, last, twin>>

----------------------------------------------------------------------------
(* Bounds of the model *)

\* Longest buffer of the general specification.
MaxLen == 3
\* Longest buffer of the fixed-width-read specification.
MaxWide == 9
\* Longest buffer of the specification with a twin reader.
MaxTwin == 2

\* usize is WordBits wide: 64 in the program, here the narrowest word whose
\* isize::MAX holds the longest buffer modelled.
Longest == IF MaxLen > MaxWide THEN MaxLen ELSE MaxWide
WordBits == CHOOSE w \in 2 .. 16 :
                /\ 2 ^ (w - 1) - 1 >= Longest
                /\ \A v \in 2 .. (w - 1) : 2 ^ (v - 1) - 1 < Longest
Mod == 2 ^ WordBits
UsizeMax == Mod - 1
\* A Rust slice never holds more than isize::MAX bytes.
IsizeMax == 2 ^ (WordBits - 1) - 1

\* Byte values the buffers are drawn from: NUL, a 2-byte UTF-8 lead (0xC3)
\* and a continuation byte (0xA9).  C3 A9 encodes U+00E9; a lone A9, or a
\* C3 that no continuation byte follows, is invalid UTF-8.
ByteVals == {0, 195, 169}
\* Byte values of the long buffers of the fixed-width-read specification.
WideVals == {1, 255}

\* Arguments of advance, align, rewind, read_block and get_block_at: nothing,
\* one byte, the longest buffer, and the largest usize.
ArgVals == {0, 1, MaxLen, UsizeMax}

RECURSIVE SeqsUpTo(_, _)
SeqsUpTo(S, n) ==
    IF n = 0 THEN {<<>>}
    ELSE LET P == SeqsUpTo(S, n - 1)
         IN  P \cup {Append(s, x) : s \in {t \in P : Len(t) = n - 1}, x \in S}

----------------------------------------------------------------------------
(* usize arithmetic *)

\* a + b on usize: panics on overflow in a build with overflow checks,
\* wraps otherwise.
usize_add(a, b) ==
    [panic |-> overflow_checks /\ a + b > UsizeMax, val |-> (a + b) % Mod]

\* a - b on usize.
usize_sub(a, b) ==
    [panic |-> overflow_checks /\ a < b, val |-> (a - b + Mod) % Mod]

----------------------------------------------------------------------------
(* Results of a call *)

Unit == <<>>

\* outcome: "Ok", "OutOfBounds", "InvalidRewind" or "Panic"; value: the bytes
\* returned (an integer is its base-256 numeral, most significant digit first;
\* a String is its UTF-8 bytes); cursor: the cursor after the call; slices:
\* the ranges [lo, hi) the call indexed or sliced the buffer with; error: the
\* message of the error returned, if any.
Res(outcome, value, cur, slices) ==
    [outcome |-> outcome, value |-> value, cursor |-> cur, slices |-> slices,
     error |-> [text |-> "", args |-> <<>>]]

\* The message of an anyhow error: the format string of bail! and the
\* numbers formatted into it, in order.
Message(text, args) == [text |-> text, args |-> args]

\* bail!(message): the method returns the error; the cursor stays at c.
Bail(outcome, c, message) ==
    [outcome |-> outcome, value |-> Unit, cursor |-> c, slices |-> <<>>,
     error |-> message]

Range(lo, hi) == [lo |-> lo, hi |-> hi]

\* buffer[lo..hi] is evaluated without a panic iff lo <= hi <= buffer.len().
InRange(r) == r.lo <= r.hi /\ r.hi <= Len(buffer)

\* The bytes of buffer[lo..hi] (offsets are 0-based, sequences 1-based).
Bytes(lo, hi) == SubSeq(buffer, lo + 1, hi)

----------------------------------------------------------------------------
(* String::from_utf8_lossy: the String's UTF-8 bytes.  Valid sequences are  *)
(* copied; every maximal invalid part is replaced by U+FFFD (EF BF BD).     *)

REPLACEMENT == <<239, 191, 189>>

safe_get(s, i) == IF i <= Len(s) THEN s[i] ELSE 0

IsCont(b) == b >= 128 /\ b <= 191

utf8_char_width(b) ==
    IF b < 128 THEN 1
    ELSE IF b >= 194 /\ b <= 223 THEN 2
    ELSE IF b >= 224 /\ b <= 239 THEN 3
    ELSE IF b >= 240 /\ b <= 244 THEN 4
    ELSE 0

\* The second byte a 3-byte lead admits.
Second3(b0, b1) ==
    \/ b0 = 224 /\ b1 >= 160 /\ b1 <= 191
    \/ b0 >= 225 /\ b0 <= 236 /\ IsCont(b1)
    \/ b0 = 237 /\ b1 >= 128 /\ b1 <= 159
    \/ b0 >= 238 /\ b0 <= 239 /\ IsCont(b1)

\* The second byte a 4-byte lead admits.
Second4(b0, b1) ==
    \/ b0 = 240 /\ b1 >= 144 /\ b1 <= 191
    \/ b0 >= 241 /\ b0 <= 243 /\ IsCont(b1)
    \/ b0 = 244 /\ b1 >= 128 /\ b1 <= 143

Chunk(n, ok) == [n |-> n, ok |-> ok]

\* The chunk starting at s[i]: its length and whether it is a valid sequence.
ChunkAt(s, i) ==
    LET b0 == s[i]
        w  == utf8_char_width(b0)
    IN  IF w = 1 THEN Chunk(1, TRUE)
        ELSE IF w = 2 THEN
            IF IsCont(safe_get(s, i + 1)) THEN Chunk(2, TRUE) ELSE Chunk(1, FALSE)
        ELSE IF w = 3 THEN
            IF ~Second3(b0, safe_get(s, i + 1)) THEN Chunk(1, FALSE)
            ELSE IF ~IsCont(safe_get(s, i + 2)) THEN Chunk(2, FALSE)
            ELSE Chunk(3, TRUE)
        ELSE IF w = 4 THEN
            IF ~Second4(b0, safe_get(s, i + 1)) THEN Chunk(1, FALSE)
            ELSE IF ~IsCont(safe_get(s, i + 2)) THEN Chunk(2, FALSE)
            ELSE IF ~IsCont(safe_get(s, i + 3)) THEN Chunk(3, FALSE)
            ELSE Chunk(4, TRUE)
        ELSE Chunk(1, FALSE)

RECURSIVE LossyFrom(_, _)
LossyFrom(s, i) ==
    IF i > Len(s) THEN <<>>
    ELSE LET c == ChunkAt(s, i)
         IN  (IF c.ok THEN SubSeq(s, i, i + c.n - 1) ELSE REPLACEMENT)
             \o LossyFrom(s, i + c.n)

from_utf8_lossy(s) == LossyFrom(s, 1)

----------------------------------------------------------------------------
(* Integer conversions.  An unsigned integer of w bytes is written as its   *)
(* base-256 numeral: w digits, most significant first.                      *)

RECURSIVE Reverse(_)
Reverse(s) == IF s = <<>> THEN <<>> ELSE Append(Reverse(Tail(s)), Head(s))

\* uN::from_be_bytes: bytes[0] is the most significant digit.
from_be_bytes(bytes) == bytes

\* A from_le_bytes that reads its bytes most significant first.
from_le_bytes_as_be(bytes) == bytes

\* uN::from_le_bytes: bytes[0] is the least significant digit.
from_le_bytes(bytes) == Reverse(bytes)

\* size_of::<uN>()
SizeU8 == 1
SizeU16 == 2
SizeU32 == 4
SizeU64 == 8

----------------------------------------------------------------------------
(* The methods of ByteReader, as functions of the cursor c they start from *)

\* has_space(length): "Ok", "OutOfBounds", or "Panic" when cursor + length
\* overflows in a build with overflow checks.
has_space(c, length) ==
    LET sum == usize_add(c, length)
    IN  IF sum.panic THEN "Panic"
        ELSE IF sum.val > Len(buffer) THEN "OutOfBounds"
        ELSE "Ok"

\* The message of has_space's error.
HasSpaceMessage ==
    Message("ByteReader has reached the end! cannot read anymore bytes, consider rewinding if you want to re-read some bytes",
            <<>>)

\* A call that ends at `has_space(..)?` (outcome "OutOfBounds") or in an
\* arithmetic panic (outcome "Panic"); the cursor stays at c.
Fail(outcome, c) ==
    IF outcome = "OutOfBounds" THEN Bail(outcome, c, HasSpaceMessage)
    ELSE Res(outcome, Unit, c, <<>>)

\* slice.iter().position(|&b| b == 0): index of the first zero byte of s,
\* or None.
None == -1
\* A position that counts the zero byte in.
position_past_zero(s) ==
    LET Z == {i \in 1 .. Len(s) : s[i] = 0}
    IN  IF Z = {} THEN None
        ELSE CHOOSE i \in Z : \A j \in Z : i <= j

position(s) ==
    LET Z == {i \in 1 .. Len(s) : s[i] = 0}
    IN  IF Z = {} THEN None
        ELSE (CHOOSE i \in Z : \A j \in Z : i <= j) - 1

unwrap_or(opt, default) == IF opt = None THEN default ELSE opt

read_c_str(c) ==
    LET hs == has_space(c, 1)
        r1 == Range(c, Len(buffer))
    IN  IF hs # "Ok" THEN Fail(hs, c)
        ELSE IF ~InRange(r1) THEN Res("Panic", Unit, c, <<r1>>)
        ELSE
          LET len  == unwrap_or(position(Bytes(r1.lo, r1.hi)), Len(buffer))
              end  == usize_add(c, len)
              r2   == Range(c, end.val)
              next == usize_add(end.val, 1)
          IN  IF end.panic THEN Res("Panic", Unit, c, <<r1>>)
              ELSE IF ~InRange(r2) THEN Res("Panic", Unit, c, <<r1, r2>>)
              ELSE IF next.panic THEN Res("Panic", Unit, c, <<r1, r2>>)
              ELSE Res("Ok", from_utf8_lossy(Bytes(r2.lo, r2.hi)), next.val, <<r1, r2>>)

read_u8(c) ==
    LET size == SizeU8
        hs   == has_space(c, size)
        r    == Range(c, c + 1)
        next == usize_add(c, size)
    IN  IF hs # "Ok" THEN Fail(hs, c)
        ELSE IF ~InRange(r) THEN Res("Panic", Unit, c, <<r>>)
        ELSE IF next.panic THEN Res("Panic", Unit, c, <<r>>)
        ELSE Res("Ok", <<buffer[c + 1]>>, next.val, <<r>>)

\* The body shared by read_u16_be .. read_u64_le: size bytes at the cursor,
\* converted big-endian (be) or little-endian.
read_uint(c, size, be) ==
    LET hs   == has_space(c, size)
        end  == usize_add(c, size)
        r    == Range(c, end.val)
        next == usize_add(c, size)
    IN  IF hs # "Ok" THEN Fail(hs, c)
        ELSE IF end.panic THEN Fail("Panic", c)
        ELSE IF ~InRange(r) THEN Res("Panic", Unit, c, <<r>>)
        ELSE IF next.panic THEN Res("Panic", Unit, c, <<r>>)
        ELSE Res("Ok",
                 IF be THEN from_be_bytes(Bytes(r.lo, r.hi))
                       ELSE from_le_bytes(Bytes(r.lo, r.hi)),
                 next.val, <<r>>)

read_u16_be(c) == read_uint(c, SizeU16, TRUE)
read_u16_le(c) == read_uint(c, SizeU16, FALSE)
read_u32_be(c) == read_uint(c, SizeU32, TRUE)
read_u32_le(c) == read_uint(c, SizeU32, FALSE)
read_u64_be(c) == read_uint(c, SizeU64, TRUE)
read_u64_le(c) == read_uint(c, SizeU64, FALSE)

advance(c, n) ==
    LET next == usize_add(c, n)
    IN  IF next.panic THEN Fail("Panic", c) ELSE Res("Ok", Unit, next.val, <<>>)

align(c, n) ==
    IF n = 0 THEN Fail("Panic", c)            \* remainder by zero
    ELSE LET remain == c % n
             down   == usize_sub(c, remain)
             up     == usize_add(down.val, n)
         IN  IF remain = 0 THEN Res("Ok", Unit, c, <<>>)
             ELSE IF down.panic \/ up.panic THEN Fail("Panic", c)
             ELSE Res("Ok", Unit, up.val, <<>>)

\* len(): the buffer's length, as a one-element value.
len(c) == Res("Ok", <<Len(buffer)>>, c, <<>>)

\* A read_block that returns the bytes and forgets to advance.
read_block_keeps_cursor(c, n) ==
    LET hs   == has_space(c, n)
        end  == usize_add(c, n)
        r    == Range(c, end.val)
    IN  IF hs # "Ok" THEN Fail(hs, c)
        ELSE IF end.panic THEN Fail("Panic", c)
        ELSE IF ~InRange(r) THEN Res("Panic", Unit, c, <<r>>)
        ELSE Res("Ok", Bytes(r.lo, r.hi), c, <<r>>)

read_block(c, n) ==
    LET hs   == has_space(c, n)
        end  == usize_add(c, n)
        r    == Range(c, end.val)
        next == usize_add(c, n)
    IN  IF hs # "Ok" THEN Fail(hs, c)
        ELSE IF end.panic THEN Fail("Panic", c)
        ELSE IF ~InRange(r) THEN Res("Panic", Unit, c, <<r>>)
        ELSE IF next.panic THEN Res("Panic", Unit, c, <<r>>)
        ELSE Res("Ok", Bytes(r.lo, r.hi), next.val, <<r>>)

\* A message of get_block_at that leaves the buffer's size out.
GetBlockAtMessageWithoutSize(pos, length) ==
    Message("Position: {position}, and Length: {length}, exceeds the buffer size",
            <<pos, length>>)

\* The message of get_block_at's error.
GetBlockAtMessage(pos, length) ==
    Message("Position: {position}, and Length: {length}, exceeds the buffer size {}",
            <<pos, length, Len(buffer)>>)

get_block_at(c, pos, length) ==
    LET end == usize_add(pos, length)
        r   == Range(pos, end.val)
    IN  IF end.panic THEN Fail("Panic", c)
        ELSE IF end.val > Len(buffer)
             THEN Bail("OutOfBounds", c, GetBlockAtMessage(pos, length))
        ELSE IF ~InRange(r) THEN Res("Panic", Unit, c, <<r>>)
        ELSE Res("Ok", Bytes(r.lo, r.hi), c, <<r>>)

\* The message of rewind's error (its text without the backquotes around
\* reader.reset(), which a string here cannot hold).
RewindMessage(n) ==
    Message("Rewinding by n: {n}, will put the cursor position in negative value. If you want to reset cursor position use reader.reset() instead",
            <<n>>)

rewind(c, n) ==
    LET next == usize_sub(c, n)
    IN  IF n < c THEN Bail("InvalidRewind", c, RewindMessage(n))
        ELSE IF next.panic THEN Fail("Panic", c)
        ELSE Res("Ok", Unit, next.val, <<>>)

\* A reset that leaves the cursor where it is.
reset_keeps_cursor(c) == Res("Ok", Unit, c, <<>>)

reset(c) == Res("Ok", Unit, 0, <<>>)

----------------------------------------------------------------------------
(* The state machine *)

Call(op, a, b) == [op |-> op, a |-> a, b |-> b]

\* The record of a call: the call, the cursor it started from and its result.
Done(call, c, res) ==
    [op |-> call.op, a |-> call.a, b |-> call.b, before |-> c,
     outcome |-> res.outcome, value |-> res.value, slices |-> res.slices,
     error |-> res.error]

\* ByteReader::new
New(bytes) == [cursor |-> 0, buffer |-> bytes]

Fresh == Done(Call("new", 0, 0), 0, Res("Ok", Unit, 0, <<>>))

\* The twin is a second reader, constructed over the same buffer at the
\* moment of a reset and given every later call as well.
NoTwin == [active |-> FALSE, cursor |-> 0, last |-> Fresh]
NewTwin == [active |-> TRUE, cursor |-> New(buffer).cursor, last |-> Fresh]

InitWith(bufs) ==
    /\ overflow_checks \in BOOLEAN
    /\ \E bytes \in bufs :
         /\ Len(bytes) <= IsizeMax
         /\ buffer = New(bytes).buffer
         /\ cursor = New(bytes).cursor
    /\ last = Fresh
    /\ twin = NoTwin

Init == InitWith(SeqsUpTo(ByteVals, MaxLen))

\* A panic aborts the program.
Running == last.outcome # "Panic"

\* One call: the cursor moves to the result's cursor, the buffer and the
\* build stay as they are.
Run(call, res) ==
    /\ cursor' = res.cursor
    /\ last' = Done(call, cursor, res)
    /\ UNCHANGED <<buffer, overflow_checks>>

\* The same call on the twin, when there is one; tres is its result there.
TwinRun(call, tres) ==
    twin' = IF twin.active
            THEN [active |-> TRUE, cursor |-> tres.cursor,
                  last |-> Done(call, twin.cursor, tres)]
            ELSE twin

\* A call whose result is res on the reader and tres on the twin.
Step(call, res, tres) == Run(call, res) /\ TwinRun(call, tres)

ReadCStr ==
    /\ Running
    /\ Step(Call("read_c_str", 0, 0), read_c_str(cursor), read_c_str(twin.cursor))

ReadU8 ==
    /\ Running
    /\ Step(Call("read_u8", 0, 0), read_u8(cursor), read_u8(twin.cursor))

ReadU16Be ==
    /\ Running
    /\ Step(Call("read_u16_be", 0, 0),
            read_u16_be(cursor), read_u16_be(twin.cursor))

ReadU16Le ==
    /\ Running
    /\ Step(Call("read_u16_le", 0, 0),
            read_u16_le(cursor), read_u16_le(twin.cursor))

ReadU32Be ==
    /\ Running
    /\ Step(Call("read_u32_be", 0, 0),
            read_u32_be(cursor), read_u32_be(twin.cursor))

ReadU32Le ==
    /\ Running
    /\ Step(Call("read_u32_le", 0, 0),
            read_u32_le(cursor), read_u32_le(twin.cursor))

ReadU64Be ==
    /\ Running
    /\ Step(Call("read_u64_be", 0, 0),
            read_u64_be(cursor), read_u64_be(twin.cursor))

ReadU64Le ==
    /\ Running
    /\ Step(Call("read_u64_le", 0, 0),
            read_u64_le(cursor), read_u64_le(twin.cursor))

Advance ==
    /\ Running
    /\ \E n \in ArgVals :
         Step(Call("advance", n, 0), advance(cursor, n), advance(twin.cursor, n))

Align ==
    /\ Running
    /\ \E n \in ArgVals :
         Step(Call("align", n, 0), align(cursor, n), align(twin.cursor, n))

LenCall ==
    /\ Running
    /\ Step(Call("len", 0, 0), len(cursor), len(twin.cursor))

ReadBlock ==
    /\ Running
    /\ \E n \in ArgVals :
         Step(Call("read_block", n, 0),
              read_block(cursor, n), read_block(twin.cursor, n))

GetBlockAt ==
    /\ Running
    /\ \E pos \in ArgVals, length \in ArgVals :
         Step(Call("get_block_at", pos, length),
              get_block_at(cursor, pos, length),
              get_block_at(twin.cursor, pos, length))

Rewind ==
    /\ Running
    /\ \E n \in ArgVals :
         Step(Call("rewind", n, 0), rewind(cursor, n), rewind(twin.cursor, n))

Reset ==
    /\ Running
    /\ Step(Call("reset", 0, 0), reset(cursor), reset(twin.cursor))

\* reset, with a fresh reader constructed beside it.
ResetAndNew ==
    /\ Running
    /\ Run(Call("reset", 0, 0), reset(cursor))
    /\ twin' = NewTwin

Next ==
    \/ ReadCStr
    \/ ReadU8
    \/ ReadU16Be
    \/ ReadU16Le
    \/ ReadU32Be
    \/ ReadU32Le
    \/ ReadU64Be
    \/ ReadU64Le
    \/ Advance
    \/ Align
    \/ LenCall
    \/ ReadBlock
    \/ GetBlockAt
    \/ Rewind
    \/ Reset

Spec == Init /\ [][Next]_vars

\* Every call, in a build with overflow checks (the debug profile).
InitChecked == Init /\ overflow_checks = TRUE

SpecChecked == InitChecked /\ [][Next]_vars

\* The fixed-width reads alone, over buffers long enough for every width.
InitReads == InitWith(SeqsUpTo(WideVals, MaxWide))

NextReads ==
    \/ ReadU8
    \/ ReadU16Be
    \/ ReadU16Le
    \/ ReadU32Be
    \/ ReadU32Le
    \/ ReadU64Be
    \/ ReadU64Le
    \/ Reset

SpecReads == InitReads /\ [][NextReads]_vars

\* Every call, with a fresh reader constructed at each reset.
NextTwin ==
    \/ ReadCStr
    \/ ReadU8
    \/ ReadU16Be
    \/ ReadU16Le
    \/ ReadU32Be
    \/ ReadU32Le
    \/ ReadU64Be
    \/ ReadU64Le
    \/ Advance
    \/ Align
    \/ LenCall
    \/ ReadBlock
    \/ GetBlockAt
    \/ Rewind
    \/ ResetAndNew

InitTwin == InitWith(SeqsUpTo(ByteVals, MaxTwin))

SpecTwin == InitTwin /\ [][NextTwin]_vars

\* The calls other than advance and align, on every buffer of Init.
NextNoSkip ==
    \/ ReadCStr
    \/ ReadU8
    \/ ReadU16Be
    \/ ReadU16Le
    \/ ReadU32Be
    \/ ReadU32Le
    \/ ReadU64Be
    \/ ReadU64Le
    \/ LenCall
    \/ ReadBlock
    \/ GetBlockAt
    \/ Rewind
    \/ Reset

SpecNoSkip == Init /\ [][NextNoSkip]_vars

----------------------------------------------------------------------------
(* Vocabulary of the properties *)

FixedReads ==
    {"read_u8", "read_u16_be", "read_u16_le", "read_u32_be", "read_u32_le",
     "read_u64_be", "read_u64_le"}

\* The width in bytes of the integer a fixed-width read decodes.
Width(op) ==
    CASE op = "read_u8" -> 1
      [] op \in {"read_u16_be", "read_u16_le"} -> 2
      [] op \in {"read_u32_be", "read_u32_le"} -> 4
      [] op \in {"read_u64_be", "read_u64_le"} -> 8

LittleEndian(op) == op \in {"read_u16_le", "read_u32_le", "read_u64_le"}

ReadOps == FixedReads \cup {"read_block", "read_c_str"}

\* The number of bytes a read asks has_space for.
Needed(l) ==
    IF l.op \in FixedReads THEN Width(l.op)
    ELSE IF l.op = "read_block" THEN l.a
    ELSE 1

\* The byte at 0-based offset i of the buffer.
At(i) == buffer[i + 1]

\* The offsets of the zero bytes at or after offset c.
ZerosFrom(c) == {i \in c .. Len(buffer) - 1 : At(i) = 0}

FirstZeroFrom(c) == CHOOSE z \in ZerosFrom(c) : \A y \in ZerosFrom(c) : z <= y

\* Well-formed UTF-8 (Unicode Standard, table 3-7): one scalar value.
Scalar(s) ==
    LET n == Len(s)
        In(i, lo, hi) == s[i] >= lo /\ s[i] <= hi
    IN  \/ n = 1 /\ In(1, 0, 127)
        \/ n = 2 /\ In(1, 194, 223) /\ In(2, 128, 191)
        \/ n = 3 /\ In(3, 128, 191) /\
             \/ In(1, 224, 224) /\ In(2, 160, 191)
             \/ In(1, 225, 236) /\ In(2, 128, 191)
             \/ In(1, 237, 237) /\ In(2, 128, 159)
             \/ In(1, 238, 239) /\ In(2, 128, 191)
        \/ n = 4 /\ In(3, 128, 191) /\ In(4, 128, 191) /\
             \/ In(1, 240, 240) /\ In(2, 144, 191)
             \/ In(1, 241, 243) /\ In(2, 128, 191)
             \/ In(1, 244, 244) /\ In(2, 128, 143)

\* Well-formed UTF-8: a concatenation of scalar values.
RECURSIVE WellFormed(_)
WellFormed(s) ==
    \/ s = <<>>
    \/ \E n \in 1 .. 4 :
         /\ n <= Len(s)
         /\ Scalar(SubSeq(s, 1, n))
         /\ WellFormed(SubSeq(s, n + 1, Len(s)))

----------------------------------------------------------------------------
(* C1: bounds safety.  No call ever indexes or slices the buffer with a     *)
(* range that leaves [0, buffer.len()): every range [lo, hi) a call         *)
(* evaluates on the buffer satisfies lo <= hi <= buffer.len().              *)
C1_BoundsSafety ==
    \A i \in 1 .. Len(last.slices) : InRange(last.slices[i])

(* C2: a fixed-width read that starts at a cursor with cursor + width <=    *)
(* len(B) succeeds, advances the cursor by exactly width, and returns the   *)
(* unsigned integer whose digit of weight 256^k is the byte at offset       *)
(* cursor + width - 1 - k (big-endian) or cursor + k (little-endian).       *)
C2_FixedWidthRead ==
    (last.op \in FixedReads /\ last.before + Width(last.op) <= Len(buffer)) =>
        LET w == Width(last.op)
        IN  /\ last.outcome = "Ok"
            /\ cursor = last.before + w
            /\ Len(last.value) = w
            /\ \A k \in 0 .. w - 1 :
                 last.value[w - k] =
                     IF LittleEndian(last.op) THEN At(last.before + k)
                     ELSE At(last.before + w - 1 - k)

\* A little-endian 64-bit read that succeeded away from the buffer's start,
\* on bytes that read differently in the two byte orders.
C2_Witness ==
    /\ last.op = "read_u64_le"
    /\ last.outcome = "Ok"
    /\ last.before = 1
    /\ last.value # Bytes(last.before, last.before + 8)

(* C3: a fixed-width read, read_block(length) or read_c_str that starts at  *)
(* a cursor with cursor + length > len(B) fails with OutOfBounds and leaves *)
(* the cursor unchanged.                                                    *)
C3_FailsWithoutSpace ==
    (last.op \in ReadOps /\ last.before + Needed(last) > Len(buffer)) =>
        /\ last.outcome = "OutOfBounds"
        /\ cursor = last.before

(* C4: rewind(n) with n >= cursor fails with InvalidRewind and leaves the   *)
(* cursor unchanged.                                                        *)
C4_RewindRejects ==
    (last.op = "rewind" /\ last.a >= last.before) =>
        /\ last.outcome = "InvalidRewind"
        /\ cursor = last.before

(* C5: rewind(n) with n < cursor succeeds and sets the cursor to            *)
(* cursor - n.                                                              *)
C5_RewindMovesBack ==
    (last.op = "rewind" /\ last.a < last.before) =>
        /\ last.outcome = "Ok"
        /\ cursor = last.before - last.a

(* C6: read_c_str at a cursor in [0, len(B)) with no zero byte at or after  *)
(* it succeeds, returns the remaining bytes buffer[cursor..len(B)] as the   *)
(* string content, and sets the cursor to len(B) + 1.                       *)
C6_CStrWithoutTerminator ==
    (/\ last.op = "read_c_str"
     /\ last.before < Len(buffer)
     /\ ZerosFrom(last.before) = {}) =>
        /\ last.outcome = "Ok"
        /\ last.value = from_utf8_lossy(Bytes(last.before, Len(buffer)))
        /\ cursor = Len(buffer) + 1

(* C7, as stated: read_c_str at a cursor with a zero byte at or after it    *)
(* returns exactly the bytes from the cursor up to the first zero byte at   *)
(* index z, and sets the cursor to z + 1 <= len(B).                         *)
C7_CStrReturnsBytes ==
    (last.op = "read_c_str" /\ ZerosFrom(last.before) # {}) =>
        LET z == FirstZeroFrom(last.before)
        IN  /\ last.outcome = "Ok"
            /\ last.value = Bytes(last.before, z)
            /\ cursor = z + 1
            /\ cursor <= Len(buffer)

(* C7, amended: read_c_str at a cursor with a zero byte at or after it      *)
(* decodes exactly the bytes from the cursor up to the first zero byte at   *)
(* index z and sets the cursor to z + 1 <= len(B).  The string returned is  *)
(* well-formed UTF-8; it is those bytes when they are well-formed UTF-8,    *)
(* and otherwise differs from them in holding U+FFFD for what is not.       *)
C7_CStrDecodesBytes ==
    (last.op = "read_c_str" /\ ZerosFrom(last.before) # {}) =>
        LET z     == FirstZeroFrom(last.before)
            bytes == Bytes(last.before, z)
        IN  /\ last.outcome = "Ok"
            /\ last.slices[Len(last.slices)] = Range(last.before, z)
            /\ WellFormed(last.value)
            /\ WellFormed(bytes) => last.value = bytes
            /\ ~WellFormed(bytes) =>
                 /\ last.value # bytes
                 /\ \E i \in 1 .. Len(last.value) - 2 :
                      SubSeq(last.value, i, i + 2) = <<239, 191, 189>>
            /\ cursor = z + 1
            /\ cursor <= Len(buffer)

\* A read_c_str after an earlier read, that found its terminator and
\* returned a string that is not empty.
C7_Witness ==
    /\ last.op = "read_c_str"
    /\ last.outcome = "Ok"
    /\ last.before > 0
    /\ ZerosFrom(last.before) # {}
    /\ last.value # <<>>

(* C8: a read (fixed-width, read_block(n), read_c_str) that starts at a     *)
(* cursor > len(B) fails with OutOfBounds and leaves the cursor unchanged.  *)
C8_ReadsFailPastEnd ==
    (last.op \in ReadOps /\ last.before > Len(buffer)) =>
        /\ last.outcome = "OutOfBounds"
        /\ cursor = last.before

(* C9: get_block_at(position, length) succeeds exactly when                 *)
(* position + length <= len(B), returning buffer[position..position +       *)
(* length], and fails with OutOfBounds otherwise; the cursor is unchanged   *)
(* in both cases.                                                           *)
C9_GetBlockAt ==
    (last.op = "get_block_at") =>
        /\ cursor = last.before
        /\ IF last.a + last.b <= Len(buffer)
           THEN /\ last.outcome = "Ok"
                /\ last.value = Bytes(last.a, last.a + last.b)
           ELSE last.outcome = "OutOfBounds"

(* C10: reset never fails and sets the cursor to 0; from then on every      *)
(* call returns the same result and leaves the same cursor as the same      *)
(* call on a reader freshly constructed over the same buffer.               *)
C10_ResetIsFresh ==
    /\ last.op = "reset" => (last.outcome = "Ok" /\ cursor = 0)
    /\ twin.active =>
         /\ cursor = twin.cursor
         /\ last.op # "reset" => last = twin.last

\* Two calls or more after a reset: a read_block that returned bytes away
\* from the buffer's start, with a twin reader beside it.
C10_Witness ==
    /\ twin.active
    /\ last.op = "read_block"
    /\ last.outcome = "Ok"
    /\ last.before > 0
    /\ last.a > 0

(* C11: read_block(n) at a cursor with cursor + n <= len(B) succeeds,       *)
(* returns exactly the bytes at offsets cursor .. cursor + n - 1 and        *)
(* advances the cursor by n (n = 0: an empty view, the cursor unchanged);   *)
(* and from every reachable cursor, read_block(a) followed by read_block(b) *)
(* yields the same bytes and the same final cursor as read_block(a + b).    *)
C11_ReadBlock ==
    /\ (last.op = "read_block" /\ last.before + last.a <= Len(buffer)) =>
         /\ last.outcome = "Ok"
         /\ Len(last.value) = last.a
         /\ \A i \in 1 .. last.a : last.value[i] = At(last.before + i - 1)
         /\ cursor = last.before + last.a
    /\ \A a, b \in 0 .. MaxLen :
         cursor + a + b <= Len(buffer) =>
           LET first  == read_block(cursor, a)
               second == read_block(first.cursor, b)
               whole  == read_block(cursor, a + b)
           IN  /\ first.outcome = "Ok"
               /\ second.outcome = "Ok"
               /\ whole.outcome = "Ok"
               /\ first.value \o second.value = whole.value
               /\ second.cursor = whole.cursor

\* A read_block of one byte away from the start of a longest buffer, with a
\* byte left for the read_block that follows it.
C11_Witness ==
    /\ last.op = "read_block"
    /\ last.outcome = "Ok"
    /\ last.before = 1
    /\ last.a = 1
    /\ Len(buffer) = MaxLen
    /\ cursor + 1 <= Len(buffer)

\* The smallest multiple of n that is >= c, for n >= 1.
NextMultiple(c, n) == CHOOSE m \in c .. c + n - 1 : m % n = 0

(* C12: align(n) for n >= 1 sets the cursor to the smallest multiple of n   *)
(* that is >= cursor (unchanged when cursor % n = 0, otherwise              *)
(* cursor + (n - cursor % n)), whatever the buffer's length, and never      *)
(* moves the cursor backwards.                                              *)
C12_AlignRoundsUp ==
    (last.op = "align" /\ last.a >= 1) =>
        /\ last.outcome = "Ok"
        /\ cursor = NextMultiple(last.before, last.a)
        /\ cursor = IF last.before % last.a = 0 THEN last.before
                    ELSE last.before + (last.a - (last.before % last.a))
        /\ cursor >= last.before

(* C13: align(n) is idempotent for n >= 1: after an align(n) that          *)
(* returned, a second align(n) returns too and leaves the cursor where the  *)
(* first one left it.                                                       *)
C13_AlignIdempotent ==
    (last.op = "align" /\ last.a >= 1 /\ last.outcome = "Ok") =>
        /\ align(cursor, last.a).outcome = "Ok"
        /\ align(cursor, last.a).cursor = cursor

\* The numbers an error message reports.
Reported == {last.error.args[i] : i \in 1 .. Len(last.error.args)}

C15_CursorRange ==
    /\ cursor <= Len(buffer) + 1
    /\ (cursor > Len(buffer) /\ last.before <= Len(buffer)) =>
         /\ last.op = "read_c_str"
         /\ last.outcome = "Ok"
         /\ ZerosFrom(last.before) = {}

(* C16: rewind never moves the cursor before the buffer's origin: a         *)
(* rewind(n) either fails with InvalidRewind or succeeds with n <= cursor   *)
(* and leaves the cursor at cursor - n; cursor - n is never computed with   *)
(* n > cursor.                                                              *)
C16_RewindNoUnderflow ==
    (last.op = "rewind") =>
        \/ last.outcome = "InvalidRewind"
        \/ /\ last.outcome = "Ok"
           /\ last.a <= last.before
           /\ cursor = last.before - last.a

(* C17: the bounds checks are free of wrap-around: at every cursor,         *)
(* has_space(length) passes only if the true sum cursor + length is         *)
(* <= buffer.length, and a get_block_at(position, length) gets past its     *)
(* check, to the slicing, only if the true sum position + length is         *)
(* <= buffer.length.                                                        *)
C17_ChecksDoNotWrap ==
    /\ \A length \in ArgVals :
         has_space(cursor, length) = "Ok" => cursor + length <= Len(buffer)
    /\ (last.op = "get_block_at" /\ last.slices # <<>>) =>
         last.a + last.b <= Len(buffer)

(* C18: align(n) has no failure path: for every cursor and every n >= 0,    *)
(* n = 0 included, whenever the result fits the machine word the call       *)
(* completes (it never aborts on a remainder by zero).                      *)
C18_AlignNeverFails ==
    (/\ last.op = "align"
     /\ (last.a = 0 \/ NextMultiple(last.before, last.a) <= UsizeMax)) =>
        last.outcome = "Ok"

====
